---- MODULE Spec2Model ----
(***************************************************************************)
(* The C boundary of the storage-proofs engine (src/ffi.rs):               *)
(* init_proof_ctx, prove, prove_mpack_ext, verify, free_prover and         *)
(* free_proof_ctx, called by two caller threads that share one process,    *)
(* one engine heap and the caller's own buffers.                           *)
(*                                                                         *)
(* A 256-bit value is held as its canonical 32-byte little-endian image.   *)
(* StorageProofs (crate::storage_proofs) is the backend: its prove,        *)
(* prove_mpack and verify return a Result, Ok or Err.                      *)
(***************************************************************************)
EXTENDS Integers, Sequences, FiniteSets, TLC

\* U256::BYTES, the width of one field element on the wire.
U256Bytes == 32
\* Field elements per chunk in the storer circuit the tests drive.
ChunkLen == 256

\* Bounds of the model.
MaxProvers == 1
MaxCtx == 1
MaxAddr == 3
NumProofs == 2

Threads == {"t1", "t2"}
ProverIds == 1..MaxProvers
CtxIds == 1..MaxCtx
Addrs == 1..MaxAddr

\* ------------------------------------------------------------------------
\* Bytes, pointers and Buffer
\* ------------------------------------------------------------------------

Min(a, b) == IF a < b THEN a ELSE b

Fill(n, b) == [i \in 1..n |-> b]

\* The caller's long-lived buffers, by name: one for an artifact reference
\* and one for a structured document.
CallerBufs == {"ref", "doc"}

\* The byte strings the caller puts in its buffers.
SampleNames ==
    {"path", "notutf8", "one", "short", "longnz", "two", "empty",
     "chunk", "proof1", "pub1"}

ProofBytes(k) == <<7, k>>
PublicInputBytes(k) == <<9, k>>

Bytes(name) ==
    CASE name = "path"    -> <<47, 97, 46, 114>>
      [] name = "notutf8" -> <<47, 255, 46, 114>>
      [] name = "one"     -> [i \in 1..U256Bytes |-> IF i = 1 THEN 5 ELSE IF i = U256Bytes THEN 1 ELSE 0]
      [] name = "short"   -> Fill(U256Bytes - 1, 3)
      [] name = "longnz"  -> Fill(U256Bytes, 4) \o <<1>>
      [] name = "two"     -> Fill(U256Bytes, 1) \o Fill(U256Bytes, 2)
      [] name = "empty"   -> <<>>
      [] name = "chunk"   -> Fill(ChunkLen * U256Bytes, 6)
      [] name = "proof1"  -> ProofBytes(1)
      [] name = "pub1"    -> PublicInputBytes(1)

\* What the caller may leave in a long-lived buffer.
ContentsOf(b) == {"path", "notutf8"}

NullPtr == [reg |-> "null", cb |-> "", addr |-> 0]
CallerPtr(b) == [reg |-> "caller", cb |-> b, addr |-> 0]
HeapPtr(a) == [reg |-> "heap", cb |-> "", addr |-> a]

\* #[repr(C)] struct Buffer { data, len }
Buffer(data, len) == [data |-> data, len |-> len]

\* ------------------------------------------------------------------------
\* Decoding: text and field elements
\* ------------------------------------------------------------------------

IsCont(s, i) == i <= Len(s) /\ s[i] >= 128 /\ s[i] <= 191

\* The length of the well-formed UTF-8 sequence that starts at s[i], 0 if none.
Utf8SeqLen(s, i) ==
    LET b == s[i] IN
    CASE b <= 127 -> 1
      [] b >= 194 /\ b <= 223 -> IF IsCont(s, i + 1) THEN 2 ELSE 0
      [] b = 224 ->
            IF i + 1 <= Len(s) /\ s[i + 1] >= 160 /\ s[i + 1] <= 191 /\ IsCont(s, i + 2)
            THEN 3 ELSE 0
      [] (b >= 225 /\ b <= 236) \/ b = 238 \/ b = 239 ->
            IF IsCont(s, i + 1) /\ IsCont(s, i + 2) THEN 3 ELSE 0
      [] b = 237 ->
            IF i + 1 <= Len(s) /\ s[i + 1] >= 128 /\ s[i + 1] <= 159 /\ IsCont(s, i + 2)
            THEN 3 ELSE 0
      [] b = 240 ->
            IF i + 1 <= Len(s) /\ s[i + 1] >= 144 /\ s[i + 1] <= 191
               /\ IsCont(s, i + 2) /\ IsCont(s, i + 3)
            THEN 4 ELSE 0
      [] b >= 241 /\ b <= 243 ->
            IF IsCont(s, i + 1) /\ IsCont(s, i + 2) /\ IsCont(s, i + 3) THEN 4 ELSE 0
      [] b = 244 ->
            IF i + 1 <= Len(s) /\ s[i + 1] >= 128 /\ s[i + 1] <= 143
               /\ IsCont(s, i + 2) /\ IsCont(s, i + 3)
            THEN 4 ELSE 0
      [] OTHER -> 0

RECURSIVE Utf8From(_, _)
Utf8From(s, i) ==
    IF i > Len(s) THEN TRUE
    ELSE LET n == Utf8SeqLen(s, i) IN
         IF n = 0 THEN FALSE ELSE Utf8From(s, i + n)

\* str::from_utf8(slice).is_ok()
FromUtf8Ok(s) == Utf8From(s, 1)

\* slice.chunks(U256::BYTES): successive windows, the last one possibly short.
SliceChunks(s) ==
    LET n == (Len(s) + U256Bytes - 1) \div U256Bytes IN
    [k \in 1..n |-> SubSeq(s, U256Bytes * (k - 1) + 1, Min(U256Bytes * k, Len(s)))]

\* U256::try_from_le_slice(c): None when a byte beyond the 32nd is set, and
\* otherwise the value of c read little-endian, a short c filled up with zeros.
TryFromLeSlice(c) ==
    IF \E i \in (U256Bytes + 1)..Len(c) : c[i] # 0
    THEN [some |-> FALSE, val |-> <<>>]
    ELSE [some |-> TRUE,
          val |-> [i \in 1..U256Bytes |-> IF i <= Len(c) THEN c[i] ELSE 0]]

\* slice.chunks(32).map(|c| U256::try_from_le_slice(c).unwrap()).collect()
DecodeArray(s) ==
    LET w == SliceChunks(s) IN
    [some |-> \A k \in 1..Len(w) : TryFromLeSlice(w[k]).some,
     val |-> [k \in 1..Len(w) |-> TryFromLeSlice(w[k]).val]]

\* Each sample's bytes, and its bytes decoded as an array and as one value.
BytesOf == [n \in SampleNames |-> Bytes(n)]
ArrayOf == [n \in SampleNames |-> DecodeArray(Bytes(n))]
ScalarOf == [n \in SampleNames |-> TryFromLeSlice(Bytes(n))]

\* ------------------------------------------------------------------------
\* State
\* ------------------------------------------------------------------------

VARIABLES
    cmem,     \* the caller's long-lived buffers: the content each holds now
    heap,     \* the engine's allocator: per address, allocated or not, and the bytes there
    provers,  \* Box<StorageProofs> handed out by init_proof_ctx
    ctxs,     \* Box<ProofCtx> handed out by prove and prove_mpack_ext
    th,       \* per caller thread: where it is inside a call, and the call's locals
    proc,     \* "running", or how the process ended: "aborted" (panic), "segv"
    last      \* what the most recent call was given and how it ended

vars == <<cmem, heap, provers, ctxs, th, proc, last>>

Params == {"chunks", "siblings", "hashes", "pubkey", "root", "salt"}
ArrayParams == {"chunks", "siblings", "hashes"}
ScalarParams == {"pubkey", "root", "salt"}

\* A String the handle holds: its own copy of the text, or (never built by
\* to_string) a view of memory it does not own.
OwnedStr(bytes) == [own |-> TRUE, bytes |-> bytes, ptr |-> NullPtr]
BorrowedStr(ptr) == [own |-> FALSE, bytes |-> <<>>, ptr |-> ptr]
NoStr == [some |-> FALSE, s |-> OwnedStr(<<>>)]
SomeStr(s) == [some |-> TRUE, s |-> s]

NoGiven == [r1cs |-> <<>>, wasm |-> <<>>, zkey |-> <<>>]
NoProver == [live |-> FALSE, r1cs |-> OwnedStr(<<>>), wasm |-> OwnedStr(<<>>),
             zkey |-> NoStr, given |-> NoGiven]

NullBuffer == Buffer(NullPtr, 0)
NoCtx == [live |-> FALSE, proof |-> NullBuffer, public_inputs |-> NullBuffer, by |-> ""]

NoVector == [n |-> 0, last |-> <<>>]
NoReq == [chunks |-> NoVector, siblings |-> NoVector, hashes |-> NoVector, path |-> <<>>,
          root |-> <<>>, salt |-> <<>>, inputs |-> NullBuffer]
NoNote == [nullArg |-> FALSE, badLen |-> FALSE, inconsistent |-> FALSE]
NoVec == [proof |-> 0, public_inputs |-> 0, k |-> 0]
Idle == [pc |-> "idle", op |-> "none", h |-> 0, req |-> NoReq, note |-> NoNote, vec |-> NoVec]

NoLast == [op |-> "none", nullArg |-> FALSE, badText |-> FALSE, badLen |-> FALSE,
           inconsistent |-> FALSE, dangling |-> FALSE, backend |-> "none",
           outcome |-> "none", retNull |-> FALSE, retBool |-> FALSE, ctx |-> 0, k |-> 0,
           proofArg |-> "", publicArg |-> ""]

Init ==
    /\ cmem = [b \in CallerBufs |-> "path"]
    /\ heap = [a \in Addrs |-> [live |-> FALSE, bytes |-> <<>>]]
    /\ provers = [h \in ProverIds |-> NoProver]
    /\ ctxs = [c \in CtxIds |-> NoCtx]
    /\ th = [t \in Threads |-> Idle]
    /\ proc = "running"
    /\ last = NoLast

\* The Buffer struct the caller builds over one of its long-lived buffers.
BufferAt(b) == Buffer(CallerPtr(b), Len(BytesOf[cmem[b]]))

\* std::slice::from_raw_parts(buf.data, buf.len) over a long-lived buffer.
CallerSlice(buf) ==
    LET all == BytesOf[cmem[buf.data.cb]] IN
    IF buf.len = Len(all) THEN all ELSE SubSeq(all, 1, buf.len)

\* The text a String of the handle reads as now.
Text(s) == IF s.own THEN s.bytes ELSE BytesOf[cmem[s.ptr.cb]]

Running(t) == proc = "running" /\ th[t].pc = "idle"

\* The process ends (how: "aborted" by a panic, "segv" by a fault) inside the
\* call that log describes: its memory, the caller's included, is gone.
Crash(how, log) ==
    /\ proc' = how
    /\ last' = [log EXCEPT !.outcome = IF how = "aborted" THEN "panic" ELSE "segv"]
    /\ cmem' = [b \in CallerBufs |-> "path"]
    /\ heap' = [a \in Addrs |-> [live |-> FALSE, bytes |-> <<>>]]
    /\ provers' = [h \in ProverIds |-> NoProver]
    /\ ctxs' = [c \in CtxIds |-> NoCtx]
    /\ th' = [t \in Threads |-> Idle]

\* ------------------------------------------------------------------------
\* init_proof_ctx
\* ------------------------------------------------------------------------

\* The slip of keeping the caller's pointer instead of a copy of the text.
KeepCallerPointer(buf) == BorrowedStr(buf.data)

\* str::from_utf8(slice).unwrap().to_string().to_owned(): a copy the handle owns.
ToOwnedString(buf) == OwnedStr(CallerSlice(buf))

\* r1cs and wasm are Buffers by value; zkey is a pointer, "null" or to a Buffer.
InitProofCtx(t, r, w, z) ==
    /\ Running(t)
    /\ LET rb == BufferAt(r)
           wb == BufferAt(w)
           bad == \/ ~FromUtf8Ok(CallerSlice(rb))
                  \/ ~FromUtf8Ok(CallerSlice(wb))
                  \/ (z # "null" /\ ~FromUtf8Ok(CallerSlice(BufferAt(z))))
           call == [NoLast EXCEPT !.op = "init", !.badText = bad]
       IN IF bad
          THEN \* unwrap() on the Err of from_utf8 panics: the process aborts
               Crash("aborted", call)
          ELSE \E h \in ProverIds :
               /\ ~provers[h].live
               /\ provers' = [provers EXCEPT ![h] =
                     [live |-> TRUE,
                      r1cs |-> ToOwnedString(rb),
                      wasm |-> ToOwnedString(wb),
                      zkey |-> IF z = "null" THEN NoStr ELSE SomeStr(ToOwnedString(BufferAt(z))),
                      given |-> [r1cs |-> CallerSlice(rb), wasm |-> CallerSlice(wb),
                                 zkey |-> IF z = "null" THEN <<>> ELSE CallerSlice(BufferAt(z))]]]
               /\ last' = [call EXCEPT !.outcome = "returned"]
               /\ UNCHANGED <<cmem, heap, ctxs, th, proc>>

\* ------------------------------------------------------------------------
\* prove (positional)
\* ------------------------------------------------------------------------

PathNull == [null |-> TRUE, v |-> <<>>]
PathOf(v) == [null |-> FALSE, v |-> v]
PathArgs == {PathNull, PathOf(<<0>>), PathOf(<<0, 1>>)}

\* What a caller passes for one chunk, as the tests do for four: the chunk's
\* 256 elements, no siblings, and one 32-byte value for each of the others.
\* An argument is "null" or names the bytes of the Buffer it points to.
DefaultArgs ==
    [x \in Params |->
       CASE x = "chunks" -> "chunk" [] x = "siblings" -> "empty" [] OTHER -> "one"]

\* DefaultArgs, or DefaultArgs with one argument replaced.
ProveArgs ==
    {DefaultArgs} \cup
    {[DefaultArgs EXCEPT ![x] = q] : x \in Params, q \in {"null", "short", "two"}}

\* The length checks the positional format asks for.
BadLength(lens) ==
    \/ \E x \in ArrayParams : lens[x] % U256Bytes # 0
    \/ \E x \in ScalarParams : lens[x] # U256Bytes

Divides(n, m) == IF n = 0 THEN m = 0 ELSE m % n = 0

\* The structural checks of a request: chunk, leaf-hash and path-index counts
\* agree and the siblings split evenly over the leaves.
Inconsistent(req) ==
    LET nc == req.chunks.n \div ChunkLen
        nh == req.hashes.n
    IN \/ nc # nh
       \/ nh # Len(req.path)
       \/ ~Divides(nh, req.siblings.n)

\* A decoded vector as the call holds it: its element count and last element.
Vec(v) == [n |-> Len(v), last |-> IF Len(v) = 0 THEN <<>> ELSE v[Len(v)]]

\* The positional arguments decoded into the call's own vectors and values.
DecodeRequest(args, path) ==
    [chunks   |-> Vec(ArrayOf[args["chunks"]].val),
     siblings |-> Vec(ArrayOf[args["siblings"]].val),
     hashes   |-> Vec(ArrayOf[args["hashes"]].val),
     path     |-> path,
     root     |-> ScalarOf[args["root"]].val,
     salt     |-> ScalarOf[args["salt"]].val,
     inputs   |-> NullBuffer]

\* Whether one of the unwrap() calls on a decoded value panics.
DecodePanics(args) ==
    \/ \E x \in ArrayParams : ~ArrayOf[args[x]].some
    \/ \E x \in ScalarParams : ~ScalarOf[args[x]].some

\* What a read through a null Buffer pointer may find, if it does not fault.
Stray == {"empty", "one"}

\* Lines 82-122 of prove: read every argument and decode it. Reading through a
\* null pointer is undefined: the process faults, or the read yields whatever
\* Buffer the build finds there (ub names its bytes).
ProveEnter(t, h, args, path) ==
    /\ Running(t)
    /\ provers[h].live
    /\ LET anyNull == path.null \/ \E x \in Params : args[x] = "null"
           call == [NoLast EXCEPT !.op = "prove", !.nullArg = anyNull]
       IN \E ub \in IF anyNull THEN {"segv"} \cup Stray ELSE {"none"} :
          IF ub = "segv"
          THEN Crash("segv", call)
          ELSE LET eff == [x \in Params |-> IF args[x] = "null" THEN ub ELSE args[x]]
                   lens == [x \in Params |-> Len(BytesOf[eff[x]])]
                   bad == BadLength(lens)
               IN IF DecodePanics(eff)
                  THEN Crash("aborted", [call EXCEPT !.badLen = bad])
                  ELSE LET req == DecodeRequest(eff, path.v) IN
                       /\ th' = [th EXCEPT ![t] =
                             [pc |-> "decoded", op |-> "prove", h |-> h, req |-> req,
                              note |-> [nullArg |-> anyNull, badLen |-> bad,
                                        inconsistent |-> Inconsistent(req)],
                              vec |-> NoVec]]
                       /\ last' = NoLast
                       /\ UNCHANGED <<cmem, heap, provers, ctxs, proc>>

\* ------------------------------------------------------------------------
\* prove_mpack_ext
\* ------------------------------------------------------------------------

\* Line 152: the document is handed to the backend as a borrowed slice.
ProveMpackEnter(t, h, a) ==
    /\ Running(t)
    /\ provers[h].live
    /\ LET call == [NoLast EXCEPT !.op = "prove_mpack", !.nullArg = (a = "null")]
       IN \E ub \in IF a = "null" THEN {"segv"} \cup CallerBufs ELSE {"none"} :
          IF ub = "segv"
          THEN Crash("segv", call)
          ELSE /\ th' = [th EXCEPT ![t] =
                     [pc |-> "decoded", op |-> "prove_mpack", h |-> h,
                      req |-> [NoReq EXCEPT !.inputs = BufferAt(IF a = "null" THEN ub ELSE a)],
                      note |-> [NoNote EXCEPT !.nullArg = (a = "null")],
                      vec |-> NoVec]]
               /\ last' = NoLast
               /\ UNCHANGED <<cmem, heap, provers, ctxs, proc>>

\* ------------------------------------------------------------------------
\* The backend call and the return of prove and prove_mpack_ext
\* ------------------------------------------------------------------------

\* StorageProofs::prove / prove_mpack: Err (0), or Ok with the proof numbered
\* k written to proof_bytes and public_inputs_bytes.
BackendProveResults == {0} \cup (1..NumProofs)

Free(hp) == {a \in Addrs : ~hp[a].live}

\* Dropping the vectors of S returns their memory to the allocator. What a
\* freed block holds is unspecified (see ReadOutcomes), so none is recorded.
DropVecs(hp, S) ==
    [a \in Addrs |-> IF a \in S THEN [live |-> FALSE, bytes |-> <<>>] ELSE hp[a]]

\* ProofCtx::new(proof, public_inputs): the two slices' pointers and lengths.
ProofCtxNew(hp, pa, ia) ==
    [proof |-> Buffer(HeapPtr(pa), Len(hp[pa].bytes)),
     public_inputs |-> Buffer(HeapPtr(ia), Len(hp[ia].bytes))]

LogOf(t) ==
    [NoLast EXCEPT !.op = th[t].op, !.nullArg = th[t].note.nullArg,
                   !.badLen = th[t].note.badLen,
                   !.inconsistent = th[t].note.inconsistent]

\* Lines 124-139 and 154-164: the backend fills the two new vectors, and
\* unwrap() panics on its Err.
ProveBackend(t) ==
    /\ proc = "running"
    /\ th[t].pc = "decoded"
    /\ \E k \in BackendProveResults :
       IF k = 0
       THEN Crash("aborted", [LogOf(t) EXCEPT !.backend = "Err"])
       ELSE \E pa \in Free(heap) : \E ia \in Free(heap) \ {pa} :
            /\ heap' = [heap EXCEPT ![pa] = [live |-> TRUE, bytes |-> ProofBytes(k)],
                                    ![ia] = [live |-> TRUE, bytes |-> PublicInputBytes(k)]]
            /\ th' = [th EXCEPT ![t].pc = "proved", ![t].req = NoReq,
                                ![t].vec = [proof |-> pa, public_inputs |-> ia, k |-> k]]
            /\ UNCHANGED <<cmem, provers, ctxs, proc, last>>

\* Lines 141 and 166: box a ProofCtx over the two vectors; then the function
\* returns and its locals, the two vectors among them, are dropped.
ProveReturn(t) ==
    /\ proc = "running"
    /\ th[t].pc = "proved"
    /\ \E c \in CtxIds :
       /\ ~ctxs[c].live
       /\ LET v == th[t].vec
              new == ProofCtxNew(heap, v.proof, v.public_inputs)
          IN /\ ctxs' = [ctxs EXCEPT ![c] =
                   [live |-> TRUE, proof |-> new.proof,
                    public_inputs |-> new.public_inputs, by |-> t]]
             /\ heap' = DropVecs(heap, {v.proof, v.public_inputs})
             /\ th' = [th EXCEPT ![t] = Idle]
             /\ last' = [LogOf(t) EXCEPT !.backend = "Ok", !.outcome = "returned",
                                          !.ctx = c, !.k = v.k]
             /\ UNCHANGED <<cmem, provers, proc>>

\* ------------------------------------------------------------------------
\* verify
\* ------------------------------------------------------------------------

\* An argument of verify: a null pointer, a Buffer of the caller's over bytes
\* of its own, or a Buffer that is a field of a ProofCtx.
NullArg == [null |-> TRUE, buf |-> NullBuffer, own |-> ""]
OwnArg(x, n) == [null |-> FALSE, buf |-> Buffer(CallerPtr(x), Len(BytesOf[n])), own |-> n]
CtxArg(buf) == [null |-> FALSE, buf |-> buf, own |-> ""]

LiveCtxs == {c \in CtxIds : ctxs[c].live}

ProofArgs ==
    {NullArg} \cup {OwnArg("proof", n) : n \in {"proof1", "short"}}
              \cup {CtxArg(ctxs[c].proof) : c \in LiveCtxs}

PublicInputArgs ==
    {NullArg} \cup {OwnArg("public_inputs", n) : n \in {"pub1", "empty"}}
              \cup {CtxArg(ctxs[c].public_inputs) : c \in LiveCtxs}

Fault == [fault |-> TRUE, bytes |-> <<>>]
Read(bytes) == [fault |-> FALSE, bytes |-> bytes]

\* Whether buf points at engine memory that has been returned to the allocator.
Dangling(buf) == buf.data.reg = "heap" /\ ~heap[buf.data.addr].live

\* What a freed block of len bytes may hold: what some vector of that size
\* left there, or what the allocator wrote over it.
Stale(len) ==
    {b \in {ProofBytes(k) : k \in 1..NumProofs} \cup {PublicInputBytes(k) : k \in 1..NumProofs} :
        Len(b) = len}
    \cup {Fill(len, 0)}

\* std::slice::from_raw_parts(buf.data, buf.len), then read. A read through a
\* null pointer or of memory already freed is undefined: it faults, or yields
\* what is at that address now. Memory handed out again reads as its new
\* owner's bytes.
ReadOutcomes(arg) ==
    IF arg.null
    THEN {Fault} \cup {Read(BytesOf[n]) : n \in Stray}
    ELSE IF arg.buf.data.reg = "caller"
    THEN {Read(SubSeq(BytesOf[arg.own], 1, arg.buf.len))}
    ELSE LET cur == heap[arg.buf.data.addr].bytes
             got == SubSeq(cur, 1, Min(arg.buf.len, Len(cur)))
         IN IF Dangling(arg.buf)
            THEN {Fault} \cup {Read(b) : b \in Stale(arg.buf.len)}
            ELSE {Read(got)}

\* StorageProofs::verify: Ok exactly for a proof with the public inputs it
\* was generated with.
BackendVerify(proof, public_inputs) ==
    IF \E k \in 1..NumProofs : proof = ProofBytes(k) /\ public_inputs = PublicInputBytes(k)
    THEN "Ok" ELSE "Err"

\* The slip of testing the Result for is_err().
IsErr(res) == res # "Ok"

\* Result::is_ok()
IsOk(res) == res = "Ok"

Verify(t, h, p, i) ==
    /\ Running(t)
    /\ provers[h].live
    /\ LET call == [NoLast EXCEPT !.op = "verify",
                                  !.nullArg = (p.null \/ i.null),
                                  !.dangling = (Dangling(p.buf) \/ Dangling(i.buf)),
                                  !.proofArg = p.own, !.publicArg = i.own]
       IN \E pr \in ReadOutcomes(p) : \E ir \in ReadOutcomes(i) :
          IF pr.fault \/ ir.fault
          THEN Crash("segv", call)
          ELSE LET res == BackendVerify(pr.bytes, ir.bytes) IN
               /\ last' = [call EXCEPT !.backend = res, !.outcome = "returned",
                                       !.retBool = IsOk(res)]
               /\ UNCHANGED <<cmem, heap, provers, ctxs, th, proc>>

\* ------------------------------------------------------------------------
\* free_prover, free_proof_ctx
\* ------------------------------------------------------------------------

InUse(h) == \E t \in Threads : th[t].pc # "idle" /\ th[t].h = h

\* h = 0 is the null pointer.
FreeProver(t, h) ==
    /\ Running(t)
    /\ h # 0 => (provers[h].live /\ ~InUse(h))
    /\ provers' = IF h = 0 THEN provers ELSE [provers EXCEPT ![h] = NoProver]
    /\ last' = [NoLast EXCEPT !.op = "free_prover", !.nullArg = (h = 0),
                              !.outcome = "returned"]
    /\ UNCHANGED <<cmem, heap, ctxs, th, proc>>

\* c = 0 is the null pointer. Only the boxed ProofCtx is dropped: its two
\* Buffers are raw pointers, which own nothing.
FreeProofCtx(t, c) ==
    /\ Running(t)
    /\ c # 0 => ctxs[c].live
    /\ ctxs' = IF c = 0 THEN ctxs ELSE [ctxs EXCEPT ![c] = NoCtx]
    /\ last' = [NoLast EXCEPT !.op = "free_proof_ctx", !.nullArg = (c = 0),
                              !.outcome = "returned"]
    /\ UNCHANGED <<cmem, heap, provers, th, proc>>

\* ------------------------------------------------------------------------
\* The caller
\* ------------------------------------------------------------------------

Borrowed(b) == \E t \in Threads : th[t].pc # "idle" /\ th[t].req.inputs.data = CallerPtr(b)

\* Between calls the caller reuses its long-lived buffers for other content.
CallerWrite(b, s) ==
    /\ proc = "running"
    /\ ~Borrowed(b)
    /\ s # cmem[b]
    /\ cmem' = [cmem EXCEPT ![b] = s]
    /\ UNCHANGED <<heap, provers, ctxs, th, proc, last>>

InitArgs == CallerBufs \X CallerBufs \X (CallerBufs \cup {"null"})

Step(t) ==
    \/ \E a \in InitArgs : InitProofCtx(t, a[1], a[2], a[3])
    \/ \E h \in ProverIds : \E args \in ProveArgs : \E path \in PathArgs :
          ProveEnter(t, h, args, path)
    \/ \E h \in ProverIds : \E a \in CallerBufs \cup {"null"} : ProveMpackEnter(t, h, a)
    \/ ProveBackend(t)
    \/ ProveReturn(t)
    \/ \E h \in ProverIds : \E p \in ProofArgs : \E i \in PublicInputArgs : Verify(t, h, p, i)
    \/ \E h \in ProverIds \cup {0} : FreeProver(t, h)
    \/ \E c \in CtxIds \cup {0} : FreeProofCtx(t, c)

Next ==
    \/ Step("t1")
    \/ \E b \in CallerBufs : \E s \in ContentsOf(b) : CallerWrite(b, s)

Spec == Init /\ [][Next]_vars

\* A caller that proves well-formed requests and points verify at every
\* kind of Buffer.
VerifyStep(t) ==
    \/ InitProofCtx(t, "ref", "ref", "null")
    \/ \E h \in ProverIds : ProveEnter(t, h, DefaultArgs, PathOf(<<0>>))
    \/ ProveBackend(t)
    \/ ProveReturn(t)
    \/ \E h \in ProverIds : \E p \in ProofArgs : \E i \in PublicInputArgs : Verify(t, h, p, i)
    \/ \E c \in CtxIds : FreeProofCtx(t, c)

NextVerify == VerifyStep("t1")

SpecVerify == Init /\ [][NextVerify]_vars

\* A caller that reuses its buffers between well-formed calls.
OwnStep(t) ==
    \/ \E a \in InitArgs : InitProofCtx(t, a[1], a[2], a[3])
    \/ \E h \in ProverIds : ProveEnter(t, h, DefaultArgs, PathOf(<<0>>))
    \/ \E h \in ProverIds : \E a \in CallerBufs : ProveMpackEnter(t, h, a)
    \/ ProveBackend(t)
    \/ ProveReturn(t)
    \/ \E h \in ProverIds : FreeProver(t, h)
    \/ \E c \in CtxIds : FreeProofCtx(t, c)

NextOwn ==
    \/ OwnStep("t1")
    \/ \E b \in CallerBufs : \E s \in ContentsOf(b) : CallerWrite(b, s)

SpecOwn == Init /\ [][NextOwn]_vars

\* Two threads that call into one handle at the same time.
ConcStep(t) ==
    \/ InitProofCtx(t, "ref", "ref", "null")
    \/ \E h \in ProverIds : ProveEnter(t, h, DefaultArgs, PathOf(<<0>>))
    \/ \E h \in ProverIds : ProveMpackEnter(t, h, "doc")
    \/ ProveBackend(t)
    \/ ProveReturn(t)
    \/ \E h \in ProverIds : \E c \in LiveCtxs :
          Verify(t, h, CtxArg(ctxs[c].proof), CtxArg(ctxs[c].public_inputs))
    \/ \E c \in CtxIds : FreeProofCtx(t, c)

NextConc == \E t \in Threads : ConcStep(t)

SpecConc == Init /\ [][NextConc]_vars

\* ------------------------------------------------------------------------
\* Properties
\* ------------------------------------------------------------------------

Calls == {"prove", "prove_mpack"}

\* buf is a view of len bytes of a vector that is still allocated.
ViewLive(buf) ==
    /\ buf.data.reg = "heap"
    /\ heap[buf.data.addr].live
    /\ buf.len = Len(heap[buf.data.addr].bytes)

\* The bytes buf shows, when it shows any.
Shown(buf) == heap[buf.data.addr].bytes

\* C1: a ProofCtx that prove or prove_mpack_ext returned shows, through its
\* proof and public_inputs views, exactly the bytes the backend produced for
\* that call, and the memory behind both views stays allocated for as long as
\* the ProofCtx has not been handed to free_proof_ctx.
C1_ContextViewsStayLive ==
    /\ \A c \in CtxIds :
          ctxs[c].live => ViewLive(ctxs[c].proof) /\ ViewLive(ctxs[c].public_inputs)
    /\ (last.op \in Calls /\ last.outcome = "returned" /\ last.ctx # 0) =>
          /\ ctxs[last.ctx].live
          /\ Shown(ctxs[last.ctx].proof) = ProofBytes(last.k)
          /\ Shown(ctxs[last.ctx].public_inputs) = PublicInputBytes(last.k)

\* C2: when the backend's prove fails, prove and prove_mpack_ext return to the
\* caller with a null ProofCtx pointer; the call does not panic and creates no
\* ProofCtx.
C2_BackendFailureReturnsNull ==
    (last.op \in Calls /\ last.backend = "Err") =>
        /\ last.outcome = "returned"
        /\ last.retNull
        /\ last.ctx = 0

\* C3: positional prove rejects a buffer whose length is not what its
\* parameter requires (a whole number of 32-byte elements for an array,
\* exactly 32 bytes for a scalar): it returns a null ProofCtx without invoking
\* the backend, and no trailing window or short scalar is decoded by
\* zero-padding.
C3_BadLengthRejected ==
    /\ (last.op = "prove" /\ last.badLen /\ ~last.nullArg) =>
          /\ last.outcome = "returned"
          /\ last.retNull
          /\ last.backend = "none"
    /\ \A t \in Threads :
          (th[t].pc # "idle" /\ th[t].op = "prove" /\ ~th[t].note.nullArg) =>
              ~th[t].note.badLen

\* C4: prove and prove_mpack_ext given a null buffer pointer return a null
\* ProofCtx without reading through the pointer, so that no call carries on
\* with, or stops on, what such a read yields.
C4_NullBufferRejected ==
    /\ (last.op \in Calls /\ last.nullArg) =>
          /\ last.outcome = "returned"
          /\ last.retNull
          /\ last.backend = "none"
    /\ \A t \in Threads : th[t].pc # "idle" => ~th[t].note.nullArg

\* C5: init_proof_ctx given a reference whose bytes are not text returns a
\* null handle; it does not panic.
C5_NonTextReturnsNull ==
    (last.op = "init" /\ last.badText) =>
        /\ last.outcome = "returned"
        /\ last.retNull

\* C6: a prove request whose parts do not fit together (chunks not a positive
\* multiple of the chunk length, hashes not one per chunk, siblings or path
\* not a whole number of levels per chunk) is rejected with a null ProofCtx
\* before the backend is invoked.
C6_InconsistentRejected ==
    /\ (last.op = "prove" /\ last.inconsistent /\ ~last.nullArg /\ ~last.badLen) =>
          /\ last.outcome = "returned"
          /\ last.retNull
          /\ last.backend = "none"
    /\ \A t \in Threads :
          (th[t].pc = "proved" /\ th[t].op = "prove"
             /\ ~th[t].note.nullArg /\ ~th[t].note.badLen) =>
              ~th[t].note.inconsistent

\* C7: whenever verify gets a result from the backend it returns to the
\* caller, with true exactly when that result is Ok; for buffers of the
\* caller's own that result is the backend's verdict on the proof bytes
\* against the public-input bytes, in that order, so malformed or truncated
\* proof bytes give false.
C7_VerifyReturnsBackendVerdict ==
    (last.op = "verify" /\ last.backend # "none") =>
        /\ last.outcome = "returned"
        /\ last.retBool = (last.backend = "Ok")
        /\ (last.proofArg # "" /\ last.publicArg # "") =>
              (last.retBool <=>
                 \E k \in 1..NumProofs :
                    /\ BytesOf[last.proofArg] = ProofBytes(k)
                    /\ BytesOf[last.publicArg] = PublicInputBytes(k))

\* C7 witness: verify was given truncated proof bytes of the caller's own,
\* the backend failed on them, and verify returned false.
C7_Witness ==
    /\ last.op = "verify"
    /\ last.proofArg = "short"
    /\ last.publicArg = "pub1"
    /\ last.backend = "Err"
    /\ last.outcome = "returned"
    /\ ~last.retBool

\* C8: while the process runs, only a release function ends a lifetime: a
\* live handle changes only in a step of free_prover, and a live ProofCtx and
\* every allocated vector of result bytes change only in a step of
\* free_proof_ctx. (Steps that end the process are C2's, C4's and C5's
\* subject and are left out here.)
C8_OnlyReleaseEndsLifetime ==
    [][ proc' = "running" =>
          /\ \A h \in ProverIds :
                (provers[h].live /\ provers'[h] # provers[h]) => last'.op = "free_prover"
          /\ \A c \in CtxIds :
                (ctxs[c].live /\ ctxs'[c] # ctxs[c]) => last'.op = "free_proof_ctx"
          /\ \A a \in Addrs :
                (heap[a].live /\ heap'[a] # heap[a]) => last'.op = "free_proof_ctx"
      ]_vars

\* C9: under every interleaving of two threads' prove and verify calls on one
\* handle, the calls share no result bytes and do not write the handle: the
\* vectors of a call in flight are not what a ProofCtx returned to the other
\* thread shows, two calls in flight have different vectors, and the
\* handle's references read as they were given.
C9_CallsShareNothing ==
    /\ \A c \in CtxIds : \A t \in Threads :
          (ctxs[c].live /\ ctxs[c].by # t /\ th[t].pc = "proved") =>
              {ctxs[c].proof.data.addr, ctxs[c].public_inputs.data.addr}
                 \cap {th[t].vec.proof, th[t].vec.public_inputs} = {}
    /\ \A t \in Threads : \A u \in Threads \ {t} :
          (th[t].pc = "proved" /\ th[u].pc = "proved") =>
              {th[t].vec.proof, th[t].vec.public_inputs}
                 \cap {th[u].vec.proof, th[u].vec.public_inputs} = {}
    /\ \A h \in ProverIds :
          provers[h].live =>
              /\ Text(provers[h].r1cs) = provers[h].given.r1cs
              /\ Text(provers[h].wasm) = provers[h].given.wasm

\* C10: nothing the engine keeps after a call returns points into a buffer of
\* the caller's: a live handle owns its three references, which read as the
\* text they were given whatever the caller has since written to the buffers
\* they came from, and the views of a live ProofCtx point at engine memory.
C10_NoCallerBufferRetained ==
    /\ \A h \in ProverIds :
          provers[h].live =>
              /\ provers[h].r1cs.own /\ provers[h].wasm.own
              /\ Text(provers[h].r1cs) = provers[h].given.r1cs
              /\ Text(provers[h].wasm) = provers[h].given.wasm
              /\ provers[h].zkey.some =>
                    /\ provers[h].zkey.s.own
                    /\ Text(provers[h].zkey.s) = provers[h].given.zkey
    /\ \A c \in CtxIds :
          ctxs[c].live =>
              /\ ctxs[c].proof.data.reg # "caller"
              /\ ctxs[c].public_inputs.data.reg # "caller"
    /\ \A t \in Threads : th[t].pc = "idle" => th[t].req.inputs = NullBuffer

\* C10 witness: a handle is live, the caller has since overwritten the buffer
\* its circuit reference came from, and prove_mpack_ext has returned a
\* ProofCtx for a request read from the caller's buffer.
C10_Witness ==
    /\ \E h \in ProverIds :
          /\ provers[h].live
          /\ provers[h].given.r1cs = BytesOf["path"]
          /\ provers[h].given.wasm = BytesOf["path"]
    /\ cmem["ref"] = "notutf8"
    /\ cmem["doc"] = "notutf8"
    /\ last.op = "prove_mpack"
    /\ last.outcome = "returned"
    /\ last.ctx # 0

====
